---------------------------- MODULE Spec2Model ----------------------------
(***************************************************************************)
(* A model of tractography/fibers.py: the sample-position computation      *)
(* (_calc_fiber_indices) and the FiberTree store built on it.              *)
(*                                                                         *)
(* Python floats are IEEE-754 binary64.  A float is modelled as a record   *)
(* [s, e, m]: sign bit s, exponent e of the leading mantissa bit, and the  *)
(* 53-bit mantissa m, value  (-1)^s * m * 2^(e - 52).                      *)
(* Zero is [s |-> 0, e |-> 0, m |-> << >>]  (-0.0 == 0.0 in Python).        *)
(***************************************************************************)
EXTENDS Integers, Sequences, FiniteSets, TLC

VARIABLES
    inputVTK,   \* the line-set geometry handed to convertFromVTK / addScalar
    fiberData,  \* the FiberTree that ingests the geometry
    copyTree,   \* a second FiberTree: built from a tuple, target of copyScalar
    arg,        \* the last call: its name and arguments
    ret,        \* what the last call returned, or that it raised
    legacyData, \* the FiberTree of the variant src/tractography/fibers.py
    legacyRet   \* what that variant returned to the same call

vars == <<inputVTK, fiberData, copyTree, arg, ret, legacyData, legacyRet>>

----------------------------------------------------------------------------
(* Bounds of the model *)

MaxSrc == 16      \* resampler alone: source point counts 0..MaxSrc
MaxTgt == 12      \* resampler alone: target counts -1..MaxTgt
MaxFibers == 2    \* lines of the geometry
MaxLen == 3       \* points of one line
MaxPts == 3       \* pts_per_fiber arguments 1..MaxPts

----------------------------------------------------------------------------
(* IEEE-754 binary64 arithmetic, as far as the code uses it.  The 53       *)
(* mantissa bits are kept as five limbs <<L0, L1, L2, L3, L4>>: L0 is the  *)
(* leading bit, L1..L4 hold 13 bits each.                                  *)

LimbBits == 13

RECURSIVE Pow2(_)
Pow2(n) == IF n <= 0 THEN 1 ELSE 2 * Pow2(n - 1)

Base == Pow2(LimbBits)

FZero == [s |-> 0, e |-> 0, m |-> << >>]

Abs(n) == IF n < 0 THEN -n ELSE n

RECURSIVE Norm(_, _, _)
(* <<a', b', e>> with a/b = (a'/b') * 2^e and 1 <= a'/b' < 2 *)
Norm(a, b, e) ==
    IF a < b THEN Norm(2 * a, b, e - 1)
    ELSE IF a >= 2 * b THEN Norm(a, 2 * b, e + 1)
    ELSE <<a, b, e>>

(* round to nearest, ties to even: the kept mantissa m, plus one if up *)
Rounded(sgn, e, m, up) ==
    IF ~up THEN [s |-> sgn, e |-> e, m |-> m]
    ELSE LET t4 == m[5] + 1
             t3 == m[4] + t4 \div Base
             t2 == m[3] + t3 \div Base
             t1 == m[2] + t2 \div Base
             t0 == m[1] + t1 \div Base
         IN  IF t0 = 2
             THEN [s |-> sgn, e |-> e + 1, m |-> <<1, 0, 0, 0, 0>>]
             ELSE [s |-> sgn, e |-> e,
                   m |-> <<t0, t1 % Base, t2 % Base, t3 % Base, t4 % Base>>]

(* a / b for integer-valued floats a and b, b # 0, correctly rounded *)
DivF(a, b) ==
    IF a = 0 THEN FZero
    ELSE LET sgn == IF (a < 0) = (b < 0) THEN 0 ELSE 1
             n   == Norm(Abs(a), Abs(b), 0)
             d   == n[2]
             r0  == n[1] - d
             r1  == (r0 * Base) % d
             r2  == (r1 * Base) % d
             r3  == (r2 * Base) % d
             r4  == (r3 * Base) % d
             m   == <<1, (r0 * Base) \div d, (r1 * Base) \div d,
                      (r2 * Base) \div d, (r3 * Base) \div d>>
             up  == \/ 2 * r4 > d
                    \/ 2 * r4 = d /\ (m[5] % 2) = 1
         IN  Rounded(sgn, n[3], m, up)

FromInt(n) == DivF(n, 1)

RECURSIVE Log2(_)
(* the position of the leading bit of c >= 1 *)
Log2(c) == IF c <= 1 THEN 0 ELSE 1 + Log2(c \div 2)

(* idx * f for an integer 0 <= idx < 2^13 and a float f, correctly rounded *)
MulF(idx, f) ==
    IF idx = 0 \/ f.m = << >> THEN FZero
    ELSE LET t4 == f.m[5] * idx
             t3 == f.m[4] * idx + t4 \div Base
             t2 == f.m[3] * idx + t3 \div Base
             t1 == f.m[2] * idx + t2 \div Base
             t0 == f.m[1] * idx + t1 \div Base
             n  == Log2(t0)
             lo == Pow2(n)
             hi == Pow2(LimbBits - n)
             p  == <<t0, t1 % Base, t2 % Base, t3 % Base, t4 % Base>>
             m  == <<p[1] \div lo,
                     (p[1] % lo) * hi + p[2] \div lo,
                     (p[2] % lo) * hi + p[3] \div lo,
                     (p[3] % lo) * hi + p[4] \div lo,
                     (p[4] % lo) * hi + p[5] \div lo>>
             dropped == p[5] % lo
             up == \/ 2 * dropped > lo
                   \/ 2 * dropped = lo /\ (m[5] % 2) = 1
         IN  Rounded(f.s, f.e + n, m, up)

(* int(round(f)), |f| < 2^12: Python 2 rounds half away from zero *)
IntRound(f) ==
    LET mag == IF f.m = << >> \/ f.e < -1 THEN 0
               ELSE IF f.e = -1 THEN 1
               ELSE f.m[1] * Pow2(f.e) + f.m[2] \div Pow2(LimbBits - f.e)
                    + ((f.m[2] \div Pow2(LimbBits - 1 - f.e)) % 2)
    IN  IF f.s = 1 THEN -mag ELSE mag

(* int(f), |f| < 2^12: truncation toward zero *)
IntTrunc(f) ==
    LET mag == IF f.m = << >> \/ f.e < 0 THEN 0
               ELSE f.m[1] * Pow2(f.e) + f.m[2] \div Pow2(LimbBits - f.e)
    IN  IF f.s = 1 THEN -mag ELSE mag

RECURSIVE LimbsLeq(_, _, _)
LimbsLeq(x, y, k) ==
    IF k > Len(x) THEN TRUE
    ELSE IF x[k] # y[k] THEN x[k] < y[k]
    ELSE LimbsLeq(x, y, k + 1)

MagLeq(f, g) ==
    IF f.m = << >> THEN TRUE
    ELSE IF g.m = << >> THEN FALSE
    ELSE IF f.e # g.e THEN f.e < g.e
    ELSE LimbsLeq(f.m, g.m, 1)

(* f <= g *)
FLeq(f, g) ==
    IF f.s = 0 /\ g.s = 0 THEN MagLeq(f, g)
    ELSE IF f.s = 1 /\ g.s = 1 THEN MagLeq(g, f)
    ELSE f.s = 1

----------------------------------------------------------------------------
(* FiberTree._calc_fiber_indices *)

Error == "error"
Ok == "ok"

(* Mutant: the step is taken over fiberLength, not fiberLength - 1 *)
CalcFiberIndicesStepOff(fiberLength, pts_per_fiber) ==
    IF pts_per_fiber - 1 = 0 THEN [status |-> Error, val |-> << >>]
    ELSE LET stepLength == DivF(fiberLength, pts_per_fiber - 1)
             n == IF pts_per_fiber < 0 THEN 0 ELSE pts_per_fiber
         IN  [status |-> Ok,
              val |-> [k \in 1..n |-> MulF(k - 1, stepLength)]]

(* The list of positions, or the ZeroDivisionError of the float division. *)
(* range(0, pts_per_fiber) is empty for pts_per_fiber <= 0.               *)
CalcFiberIndices(fiberLength, pts_per_fiber) ==
    IF pts_per_fiber - 1 = 0 THEN [status |-> Error, val |-> << >>]
    ELSE LET stepLength == DivF(fiberLength - 1, pts_per_fiber - 1)
             n == IF pts_per_fiber < 0 THEN 0 ELSE pts_per_fiber
         IN  [status |-> Ok,
              val |-> [k \in 1..n |-> MulF(k - 1, stepLength)]]

----------------------------------------------------------------------------
(* The line-set geometry (vtkPolyData).  Point ids are handed out line by  *)
(* line; a coordinate is a number that a double holds exactly.  Points are *)
(* stored in single ("float") or double precision.                         *)

FloatBits == 24

(* the nearest single-precision value of c >= 0, ties to even *)
ToFloat32(c) ==
    IF c < Pow2(FloatBits) THEN c
    ELSE LET lo == Pow2(Log2(c) - (FloatBits - 1))
             q  == c \div lo
             r  == c % lo
             up == \/ 2 * r > lo
                   \/ 2 * r = lo /\ (q % 2) = 1
         IN  (IF up THEN q + 1 ELSE q) * lo

RECURSIVE SumTo(_, _)
SumTo(lens, n) == IF n = 0 THEN 0 ELSE SumTo(lens, n - 1) + lens[n]

(* lines whose point counts are lens, point ids consecutive from 0 *)
LinesOf(lens) ==
    [f \in 1..Len(lens) |-> [k \in 1..lens[f] |-> SumTo(lens, f - 1) + k - 1]]

Geometries ==
    { [lines |-> LinesOf(lens), dtype |-> d] :
        lens \in UNION { [1..n -> 1..MaxLen] : n \in 0..MaxFibers },
        d \in {"float", "double"} }

(* inputVTK.GetPoints().GetPoint(id): the point's x, y, z as doubles *)
GetPoint(geom, id) ==
    LET base == IF geom.dtype = "double" THEN Pow2(FloatBits) ELSE 0
    IN  <<base + id, 2 * id + 1, (id * id) % 5>>

GetNumberOfLines(geom) == Len(geom.lines)

(* ptIds.GetId(k) of line fidx, both counted from 0 *)
GetId(geom, fidx, k) == geom.lines[fidx + 1][k + 1]

----------------------------------------------------------------------------
(* tree(): a defaultdict of defaultdicts.  fiberTree maps the key path     *)
(* <<fidx, pidx, name>> to its leaf.  A leaf is a number, or the empty     *)
(* tree that reading a missing key creates.                                *)

None == -1

Num(v) == [num |-> TRUE, v |-> v]
EmptyTree == [num |-> FALSE, v |-> 0]

NoKeys == [k \in {} |-> EmptyTree]

(* FiberTree.__init__ *)
NewFiberTree ==
    [fiberTree |-> NoKeys, no_of_fibers |-> None, pts_per_fiber |-> None,
     labels |-> {}, centroid |-> {}]

IsNum(t, k) == k \in DOMAIN t /\ t[k].num

(* t with the leaves kv written *)
PutAll(t, kv) ==
    [k \in DOMAIN t \cup DOMAIN kv |-> IF k \in DOMAIN kv THEN kv[k] ELSE t[k]]

(* t after the keys ks were looked up: a missing key now holds an empty tree *)
Touch(t, ks) ==
    [k \in DOMAIN t \cup ks |-> IF k \in DOMAIN t THEN t[k] ELSE EmptyTree]

Range(q) == { q[i] : i \in DOMAIN q }

Min(S) == CHOOSE x \in S : \A y \in S : x <= y

(* The statements groups[1], groups[2], ... run in order; each looks up    *)
(* all its keys and then uses them as numbers (float(), arithmetic, a VTK  *)
(* call), which raises TypeError on an empty tree.  The lookups of the     *)
(* statement that raises have already created its missing keys.            *)
ReadGroups(t, groups) ==
    LET bad == { i \in DOMAIN groups : \E k \in Range(groups[i]) : ~IsNum(t, k) }
    IN  IF bad = {} THEN [tree |-> t, status |-> Ok]
        ELSE [tree |-> Touch(t, Range(groups[Min(bad)])), status |-> Error]

Raise == [status |-> Error, val |-> << >>]
Return(v) == [status |-> Ok, val |-> v]

(* 0-based range(n) as a sequence *)
RangeSeq(n) == [i \in 1..n |-> i - 1]

RECURSIVE Flatten(_)
Flatten(qq) == IF qq = << >> THEN << >> ELSE Head(qq) \o Flatten(Tail(qq))

----------------------------------------------------------------------------
(* FiberTree.convertFromVTK: [self, ret] *)

(* Mutant: a line of fewer than two points is refused *)
ConvertFromVTKStrict(self, geom, pts_per_fiber) ==
    LET n  == GetNumberOfLines(geom)
        s1 == [self EXCEPT !.no_of_fibers = n, !.pts_per_fiber = pts_per_fiber]
        idx(fidx) == CalcFiberIndices(Len(geom.lines[fidx + 1]), pts_per_fiber)
        pt(fidx, pidx) ==
            GetPoint(geom, GetId(geom, fidx, IntRound(idx(fidx).val[pidx + 1])))
        keys == (0..(n - 1)) \X (0..(pts_per_fiber - 1)) \X {"x", "y", "z"}
        kv == [k \in keys |->
                 Num(pt(k[1], k[2])[CASE k[3] = "x" -> 1
                                      [] k[3] = "y" -> 2
                                      [] k[3] = "z" -> 3])]
    IN  IF \/ n > 0 /\ idx(0).status = Error
           \/ \E f \in 1..n : Len(geom.lines[f]) < 2
        THEN [self |-> s1, ret |-> Raise]
        ELSE [self |-> [s1 EXCEPT !.fiberTree = PutAll(@, kv)],
              ret |-> Return(<< >>)]

ConvertFromVTK(self, geom, pts_per_fiber) ==
    LET n  == GetNumberOfLines(geom)
        s1 == [self EXCEPT !.no_of_fibers = n, !.pts_per_fiber = pts_per_fiber]
        idx(fidx) == CalcFiberIndices(Len(geom.lines[fidx + 1]), pts_per_fiber)
        pt(fidx, pidx) ==
            GetPoint(geom, GetId(geom, fidx, IntRound(idx(fidx).val[pidx + 1])))
        keys == (0..(n - 1)) \X (0..(pts_per_fiber - 1)) \X {"x", "y", "z"}
        kv == [k \in keys |->
                 Num(pt(k[1], k[2])[CASE k[3] = "x" -> 1
                                      [] k[3] = "y" -> 2
                                      [] k[3] = "z" -> 3])]
    IN  IF n > 0 /\ idx(0).status = Error
        THEN [self |-> s1, ret |-> Raise]
        ELSE [self |-> [s1 EXCEPT !.fiberTree = PutAll(@, kv)],
              ret |-> Return(<< >>)]

(* convertFromTuple: the FiberTree of the arrays (X, Y, Z); len(X[0]) of   *)
(* an empty X raises IndexError.                                           *)
ConvertFromTuple(fiberTuple) ==
    LET X == fiberTuple[1]
        n == Len(X)
        keys == (0..(n - 1)) \X (0..(Len(X[1]) - 1)) \X {"x", "y", "z"}
        kv == [k \in keys |->
                 Num(fiberTuple[CASE k[3] = "x" -> 1
                                  [] k[3] = "y" -> 2
                                  [] k[3] = "z" -> 3][k[1] + 1][k[2] + 1])]
    IN  IF n = 0 THEN [self |-> NewFiberTree, ret |-> Raise]
        ELSE [self |-> [NewFiberTree EXCEPT !.no_of_fibers = n,
                                            !.pts_per_fiber = Len(X[1]),
                                            !.fiberTree = kv],
              ret |-> Return(<< >>)]

----------------------------------------------------------------------------
(* FiberTree.getFiber, getFibers: [self, ret] *)

XYZ(fidx, pidx) == << <<fidx, pidx, "x">>, <<fidx, pidx, "y">>, <<fidx, pidx, "z">> >>

(* the reads of one fiber, statement by statement *)
FiberReads(fidx, pts) ==
    Flatten([p \in 1..pts |-> [a \in 1..3 |-> <<XYZ(fidx, p - 1)[a]>>]])

Coord(t, fidx, pts, a) == [p \in 1..pts |-> t[<<fidx, p - 1, a>>].v]

GetFiber(self, fiberIdx) ==
    IF self.pts_per_fiber = None THEN [self |-> self, ret |-> Raise]
    ELSE LET pts == self.pts_per_fiber
             r   == ReadGroups(self.fiberTree, FiberReads(fiberIdx, pts))
         IN  [self |-> [self EXCEPT !.fiberTree = r.tree],
              ret |-> IF r.status = Error THEN Raise
                      ELSE Return(<<Coord(r.tree, fiberIdx, pts, "x"),
                                    Coord(r.tree, fiberIdx, pts, "y"),
                                    Coord(r.tree, fiberIdx, pts, "z")>>)]

(* the entries of fidxes that are not in rejIdx, in order *)
Kept(fidxes, rejIdx) == SelectSeq(fidxes, LAMBDA f : f \notin rejIdx)

ZeroRow(pts) == [p \in 1..pts |-> 0]

(* Mutant: the test of rejIdx is inverted *)
GetFibersInverted(self, fidxes, rejIdx) ==
    IF self.pts_per_fiber = None THEN [self |-> self, ret |-> Raise]
    ELSE LET pts  == self.pts_per_fiber
             kept == Kept(fidxes, Range(fidxes) \ rejIdx)
             r    == ReadGroups(self.fiberTree,
                        Flatten([i \in 1..Len(kept) |-> FiberReads(kept[i], pts)]))
             M(a) == [i \in 1..Len(fidxes) |->
                        IF i <= Len(kept) THEN Coord(r.tree, kept[i], pts, a)
                        ELSE ZeroRow(pts)]
         IN  [self |-> [self EXCEPT !.fiberTree = r.tree],
              ret |-> IF r.status = Error THEN Raise
                      ELSE Return(<<M("x"), M("y"), M("z")>>)]

(* np.zeros((len(fidxes), pts)): one row per entry of fidxes; the kept     *)
(* fibers fill the first rows, the others stay zero.                       *)
GetFibers(self, fidxes, rejIdx) ==
    IF self.pts_per_fiber = None THEN [self |-> self, ret |-> Raise]
    ELSE LET pts  == self.pts_per_fiber
             kept == Kept(fidxes, rejIdx)
             r    == ReadGroups(self.fiberTree,
                        Flatten([i \in 1..Len(kept) |-> FiberReads(kept[i], pts)]))
             M(a) == [i \in 1..Len(fidxes) |->
                        IF i <= Len(kept) THEN Coord(r.tree, kept[i], pts, a)
                        ELSE ZeroRow(pts)]
         IN  [self |-> [self EXCEPT !.fiberTree = r.tree],
              ret |-> IF r.status = Error THEN Raise
                      ELSE Return(<<M("x"), M("y"), M("z")>>)]

----------------------------------------------------------------------------
(* FiberTree.addScalar, getScalar, getScalars *)

(* scalarData[ptidx] of the j-th scalar array: one value per point id *)
ScalarValue(j, ptidx) == 1000 * j + ptidx * ptidx

(* Mutant: the position is truncated, not rounded *)
AddScalarTrunc(self, geom, j, scalarType, pts_per_fiber) ==
    IF self.no_of_fibers = None THEN [self |-> self, ret |-> Raise]
    ELSE LET n == self.no_of_fibers
             idx(fidx) == CalcFiberIndices(Len(geom.lines[fidx + 1]), pts_per_fiber)
             ptidx(fidx, pidx) ==
                 GetId(geom, fidx, IntTrunc(idx(fidx).val[pidx + 1]))
             keys == (0..(n - 1)) \X (0..(pts_per_fiber - 1)) \X {scalarType}
             kv == [k \in keys |-> Num(ScalarValue(j, ptidx(k[1], k[2])))]
         IN  IF n > 0 /\ idx(0).status = Error
             THEN [self |-> self, ret |-> Raise]
             ELSE [self |-> [self EXCEPT !.fiberTree = PutAll(@, kv)],
                   ret |-> Return(<< >>)]

AddScalar(self, geom, j, scalarType, pts_per_fiber) ==
    IF self.no_of_fibers = None THEN [self |-> self, ret |-> Raise]
    ELSE LET n == self.no_of_fibers
             idx(fidx) == CalcFiberIndices(Len(geom.lines[fidx + 1]), pts_per_fiber)
             ptidx(fidx, pidx) ==
                 GetId(geom, fidx, IntRound(idx(fidx).val[pidx + 1]))
             keys == (0..(n - 1)) \X (0..(pts_per_fiber - 1)) \X {scalarType}
             kv == [k \in keys |-> Num(ScalarValue(j, ptidx(k[1], k[2])))]
         IN  IF n > 0 /\ idx(0).status = Error
             THEN [self |-> self, ret |-> Raise]
             ELSE [self |-> [self EXCEPT !.fiberTree = PutAll(@, kv)],
                   ret |-> Return(<< >>)]

ScalarReads(fidx, pts, scalarType) ==
    [p \in 1..pts |-> << <<fidx, p - 1, scalarType>> >>]

GetScalar(self, fidx, scalarType) ==
    IF self.pts_per_fiber = None THEN [self |-> self, ret |-> Raise]
    ELSE LET pts == self.pts_per_fiber
             r   == ReadGroups(self.fiberTree, ScalarReads(fidx, pts, scalarType))
         IN  [self |-> [self EXCEPT !.fiberTree = r.tree],
              ret |-> IF r.status = Error THEN Raise
                      ELSE Return(Coord(r.tree, fidx, pts, scalarType))]

GetScalars(self, fidxes, scalarType) ==
    IF self.pts_per_fiber = None THEN [self |-> self, ret |-> Raise]
    ELSE LET pts == self.pts_per_fiber
             r   == ReadGroups(self.fiberTree,
                       Flatten([i \in 1..Len(fidxes) |->
                                  ScalarReads(fidxes[i], pts, scalarType)]))
         IN  [self |-> [self EXCEPT !.fiberTree = r.tree],
              ret |-> IF r.status = Error THEN Raise
                      ELSE Return([i \in 1..Len(fidxes) |->
                                     Coord(r.tree, fidxes[i], pts, scalarType)])]

----------------------------------------------------------------------------
(* FiberTree.addClusterInfo: fiberTree[fidx][str(label)] = label and       *)
(* fiberTree['centroid'][label] = centroids[label]                         *)

Centroid(label) == <<label + 1, label + 1, label + 1>>

AddClusterInfo(self, clusterLabels) ==
    [self |-> [self EXCEPT
                 !.labels = @ \cup { <<i - 1, clusterLabels[i]>> : i \in DOMAIN clusterLabels },
                 !.centroid = @ \cup { <<clusterLabels[i], Centroid(clusterLabels[i])>> :
                                        i \in DOMAIN clusterLabels }],
     ret |-> Return(<< >>)]

----------------------------------------------------------------------------
(* FiberTree.copyScalar: self copies from fiberData.  [self, src, ret]     *)

CopyScalar(self, src, scalarTypeArray, fidxes, rejIdx) ==
    LET noList == fidxes = << >>
        list   == IF ~noList THEN fidxes
                  ELSE IF src.no_of_fibers = None THEN << >>
                  ELSE RangeSeq(src.no_of_fibers)
        kept   == Kept(list, rejIdx)
        pts    == IF src.pts_per_fiber = None THEN 0 ELSE src.pts_per_fiber
        typeErr == /\ scalarTypeArray # << >>
                   /\ \/ noList /\ src.no_of_fibers = None
                      \/ kept # << >> /\ src.pts_per_fiber = None
        (* <<key read in src, key written in self>>, in the order of the loops *)
        pairs  == Flatten([t \in 1..Len(scalarTypeArray) |->
                    Flatten([k \in 1..Len(kept) |->
                      [p \in 1..pts |->
                         << <<kept[k], p - 1, scalarTypeArray[t]>>,
                            <<k - 1, p - 1, scalarTypeArray[t]>> >>]])])
        bad    == { i \in DOMAIN pairs : ~IsNum(src.fiberTree, pairs[i][1]) }
        done   == IF bad = {} THEN DOMAIN pairs ELSE 1..(Min(bad) - 1)
        from(k) == pairs[CHOOSE i \in done : pairs[i][2] = k][1]
        kv     == [k \in { pairs[i][2] : i \in done } |-> src.fiberTree[from(k)]]
    IN  IF typeErr THEN [self |-> self, src |-> src, ret |-> Raise]
        ELSE [self |-> [self EXCEPT !.fiberTree = PutAll(@, kv)],
              src  |-> IF bad = {} THEN src
                       ELSE [src EXCEPT !.fiberTree = Touch(@, {pairs[Min(bad)][1]})],
              ret  |-> IF bad = {} THEN Return(<< >>) ELSE Raise]

----------------------------------------------------------------------------
(* FiberTree.convertToVTK and calcFiberLength *)

(* outPts = vtk.vtkPoints() stores single precision: InsertNextPoint       *)
(* narrows each double it is given.                                        *)
InsertNextPoint(x, y, z) == <<ToFloat32(x), ToFloat32(y), ToFloat32(z)>>

(* Mutant: rejIdx is not looked at *)
ConvertToVTKNoRej(self, rejIdx) ==
    IF self.no_of_fibers = None THEN [self |-> self, ret |-> Raise]
    ELSE LET pts  == self.pts_per_fiber
             kept == RangeSeq(self.no_of_fibers)
             t    == self.fiberTree
         IN  [self |-> self,
              ret |-> Return([lines |-> [i \in 1..Len(kept) |->
                                           [p \in 1..pts |-> (i - 1) * pts + p - 1]],
                              points |-> Flatten([i \in 1..Len(kept) |->
                                           [p \in 1..pts |->
                                              InsertNextPoint(t[<<kept[i], p - 1, "x">>].v,
                                                              t[<<kept[i], p - 1, "y">>].v,
                                                              t[<<kept[i], p - 1, "z">>].v)]])])]

(* Mutant: the first fiber is left out *)
ConvertToVTKSkipFirst(self, rejIdx) ==
    IF self.no_of_fibers = None THEN [self |-> self, ret |-> Raise]
    ELSE LET pts  == self.pts_per_fiber
             kept == Kept(RangeSeq(self.no_of_fibers), rejIdx \cup {0})
             t    == self.fiberTree
         IN  [self |-> self,
              ret |-> Return([lines |-> [i \in 1..Len(kept) |->
                                           [p \in 1..pts |-> (i - 1) * pts + p - 1]],
                              points |-> Flatten([i \in 1..Len(kept) |->
                                           [p \in 1..pts |->
                                              InsertNextPoint(t[<<kept[i], p - 1, "x">>].v,
                                                              t[<<kept[i], p - 1, "y">>].v,
                                                              t[<<kept[i], p - 1, "z">>].v)]])])]

(* The geometry built: lines of new point ids, and the points inserted *)
ConvertToVTK(self, rejIdx) ==
    IF self.no_of_fibers = None THEN [self |-> self, ret |-> Raise]
    ELSE LET pts  == self.pts_per_fiber
             kept == Kept(RangeSeq(self.no_of_fibers), rejIdx)
             r    == ReadGroups(self.fiberTree,
                       Flatten([i \in 1..Len(kept) |->
                                  [p \in 1..pts |-> XYZ(kept[i], p - 1)]]))
             t    == r.tree
         IN  [self |-> [self EXCEPT !.fiberTree = r.tree],
              ret |-> IF r.status = Error THEN Raise
                      ELSE Return([lines |-> [i \in 1..Len(kept) |->
                                                [p \in 1..pts |-> (i - 1) * pts + p - 1]],
                                   points |-> Flatten([i \in 1..Len(kept) |->
                                                [p \in 1..pts |->
                                                   InsertNextPoint(t[<<kept[i], p - 1, "x">>].v,
                                                                   t[<<kept[i], p - 1, "y">>].v,
                                                                   t[<<kept[i], p - 1, "z">>].v)]])])]

Sq(d) == d * d

(* calcFiberLength.  Each segment's six coordinates are fetched, then      *)
(* used.  The value returned stands for LArray: per fiber, the squares of  *)
(* its segment lengths (L is the sum of their roots).                      *)
CalcFiberLength(self, fidxes) ==
    IF self.pts_per_fiber < 2 THEN [self |-> self, ret |-> Raise]
    ELSE LET pts == self.pts_per_fiber
             r   == ReadGroups(self.fiberTree,
                       Flatten([i \in 1..Len(fidxes) |->
                                  [p \in 1..(pts - 1) |->
                                     XYZ(fidxes[i], p) \o XYZ(fidxes[i], p - 1)]]))
             t   == r.tree
             seg(f, p) == Sq(t[<<f, p - 1, "x">>].v - t[<<f, p, "x">>].v)
                          + Sq(t[<<f, p - 1, "y">>].v - t[<<f, p, "y">>].v)
                          + Sq(t[<<f, p - 1, "z">>].v - t[<<f, p, "z">>].v)
         IN  [self |-> [self EXCEPT !.fiberTree = r.tree],
              ret |-> IF r.status = Error THEN Raise
                      ELSE Return([i \in 1..Len(fidxes) |->
                                     [p \in 1..(pts - 1) |-> seg(fidxes[i], p)]])]

----------------------------------------------------------------------------
(* The variant src/tractography/fibers.py.  Its getFiber, getScalar,       *)
(* getScalars, addClusterInfo and convertFromVTK have the statements of    *)
(* the methods above; getFibers and convertToVTK take no rejIdx, and       *)
(* addScalar stores scalarData[ptidx] as it is, without float().           *)

(* an element of scalarData stored as the object it is *)
Raw(v) == [v |-> v, num |-> TRUE, raw |-> TRUE]

LegacyConvertFromVTK(self, geom, pts_per_fiber) ==
    ConvertFromVTK(self, geom, pts_per_fiber)

LegacyGetFiber(self, fiberIdx) == GetFiber(self, fiberIdx)

LegacyGetFibers(self, fidxes) ==
    IF self.pts_per_fiber = None THEN [self |-> self, ret |-> Raise]
    ELSE LET pts  == self.pts_per_fiber
             r    == ReadGroups(self.fiberTree,
                        Flatten([i \in 1..Len(fidxes) |-> FiberReads(fidxes[i], pts)]))
             M(a) == [i \in 1..Len(fidxes) |-> Coord(r.tree, fidxes[i], pts, a)]
         IN  [self |-> [self EXCEPT !.fiberTree = r.tree],
              ret |-> IF r.status = Error THEN Raise
                      ELSE Return(<<M("x"), M("y"), M("z")>>)]

LegacyAddClusterInfo(self, clusterLabels) == AddClusterInfo(self, clusterLabels)

LegacyAddScalar(self, geom, j, scalarType, pts_per_fiber) ==
    IF self.no_of_fibers = None THEN [self |-> self, ret |-> Raise]
    ELSE LET n == self.no_of_fibers
             idx(fidx) == CalcFiberIndices(Len(geom.lines[fidx + 1]), pts_per_fiber)
             ptidx(fidx, pidx) ==
                 GetId(geom, fidx, IntRound(idx(fidx).val[pidx + 1]))
             keys == (0..(n - 1)) \X (0..(pts_per_fiber - 1)) \X {scalarType}
             kv == [k \in keys |-> Raw(ScalarValue(j, ptidx(k[1], k[2])))]
         IN  IF n > 0 /\ idx(0).status = Error
             THEN [self |-> self, ret |-> Raise]
             ELSE [self |-> [self EXCEPT !.fiberTree = PutAll(@, kv)],
                   ret |-> Return(<< >>)]

LegacyGetScalar(self, fidx, scalarType) == GetScalar(self, fidx, scalarType)

LegacyGetScalars(self, fidxes, scalarType) == GetScalars(self, fidxes, scalarType)

LegacyConvertToVTK(self) ==
    IF self.no_of_fibers = None THEN [self |-> self, ret |-> Raise]
    ELSE LET pts  == self.pts_per_fiber
             n    == self.no_of_fibers
             r    == ReadGroups(self.fiberTree,
                       Flatten([i \in 1..n |-> [p \in 1..pts |-> XYZ(i - 1, p - 1)]]))
             t    == r.tree
         IN  [self |-> [self EXCEPT !.fiberTree = r.tree],
              ret |-> IF r.status = Error THEN Raise
                      ELSE Return([lines |-> [i \in 1..n |->
                                                [p \in 1..pts |-> (i - 1) * pts + p - 1]],
                                   points |-> Flatten([i \in 1..n |->
                                                [p \in 1..pts |->
                                                   InsertNextPoint(t[<<i - 1, p - 1, "x">>].v,
                                                                   t[<<i - 1, p - 1, "y">>].v,
                                                                   t[<<i - 1, p - 1, "z">>].v)]])])]

----------------------------------------------------------------------------
(* The script around the store: one geometry, and a sequence of calls.     *)
(*                                                                         *)
(* The script makes one call at a time.  A call that returned hands its    *)
(* value back (Finish) before the next call; an exception is not caught:   *)
(* the script ends with the call that raised.  The geometry is ingested    *)
(* once, and a scalar type is attached once, from its own scalar array.    *)
(* The second tree is built last: once it exists the script makes no       *)
(* further call.                                                           *)

ScalarTypes == {"FA", "T1"}

(* the scalar array that holds the values of a scalar type *)
ScalarArrayOf(scalarType) == IF scalarType = "FA" THEN 1 ELSE 2

(* index lists handed to the calls: entries 0..MaxFibers, so that the last *)
(* names a fiber no geometry of the model has                              *)
IndexLists == UNION { [1..n -> 0..MaxFibers] : n \in 0..2 }
RejLists == SUBSET (0..(MaxFibers - 1))
TypeArrays == { <<"FA">>, <<"FA", "T1">> }

ClusterLabelings(n) == { [i \in 1..n |-> 0], [i \in 1..n |-> (i - 1) % 2] }

NoCall == [status |-> "none", val |-> << >>]
Idle == [op |-> "idle"]

Running == ret = NoCall /\ copyTree = NewFiberTree

Attached(self, scalarType) == \E k \in DOMAIN self.fiberTree : k[3] = scalarType

Init ==
    /\ inputVTK \in Geometries
    /\ fiberData = NewFiberTree
    /\ copyTree = NewFiberTree
    /\ arg = Idle
    /\ ret = NoCall
    /\ legacyData = NewFiberTree
    /\ legacyRet = NoCall

Finish ==
    /\ ret.status = Ok
    /\ copyTree = NewFiberTree
    /\ arg' = Idle
    /\ ret' = NoCall
    /\ UNCHANGED <<inputVTK, fiberData, copyTree>>
    /\ UNCHANGED <<legacyData, legacyRet>>

DoConvertFromVTK ==
    /\ Running
    /\ fiberData.no_of_fibers = None
    /\ \E pts \in 0..MaxPts :
         /\ fiberData' = ConvertFromVTK(fiberData, inputVTK, pts).self
         /\ ret' = ConvertFromVTK(fiberData, inputVTK, pts).ret
         /\ arg' = [op |-> "convertFromVTK", pts_per_fiber |-> pts]
    /\ UNCHANGED <<inputVTK, copyTree>>
    /\ UNCHANGED <<legacyData, legacyRet>>

DoAddScalar ==
    /\ Running
    /\ \E scalarType \in ScalarTypes, pts \in 1..MaxPts :
         LET j == ScalarArrayOf(scalarType)
         IN  /\ ~Attached(fiberData, scalarType)
             /\ fiberData' = AddScalar(fiberData, inputVTK, j, scalarType, pts).self
             /\ ret' = AddScalar(fiberData, inputVTK, j, scalarType, pts).ret
             /\ arg' = [op |-> "addScalar", scalarData |-> j,
                        scalarType |-> scalarType, pts_per_fiber |-> pts]
    /\ UNCHANGED <<inputVTK, copyTree>>
    /\ UNCHANGED <<legacyData, legacyRet>>

DoGetFiber ==
    /\ Running
    /\ \E fiberIdx \in 0..MaxFibers :
         /\ fiberData' = GetFiber(fiberData, fiberIdx).self
         /\ ret' = GetFiber(fiberData, fiberIdx).ret
         /\ arg' = [op |-> "getFiber", fiberIdx |-> fiberIdx]
    /\ UNCHANGED <<inputVTK, copyTree>>
    /\ UNCHANGED <<legacyData, legacyRet>>

DoGetFibers ==
    /\ Running
    /\ \E fidxes \in IndexLists, rejIdx \in RejLists :
         /\ fiberData' = GetFibers(fiberData, fidxes, rejIdx).self
         /\ ret' = GetFibers(fiberData, fidxes, rejIdx).ret
         /\ arg' = [op |-> "getFibers", fidxes |-> fidxes, rejIdx |-> rejIdx]
    /\ UNCHANGED <<inputVTK, copyTree>>
    /\ UNCHANGED <<legacyData, legacyRet>>

DoGetScalar ==
    /\ Running
    /\ \E fidx \in 0..MaxFibers, scalarType \in ScalarTypes :
         /\ fiberData' = GetScalar(fiberData, fidx, scalarType).self
         /\ ret' = GetScalar(fiberData, fidx, scalarType).ret
         /\ arg' = [op |-> "getScalar", fidx |-> fidx, scalarType |-> scalarType]
    /\ UNCHANGED <<inputVTK, copyTree>>
    /\ UNCHANGED <<legacyData, legacyRet>>

DoGetScalars ==
    /\ Running
    /\ \E fidxes \in IndexLists, scalarType \in ScalarTypes :
         /\ fiberData' = GetScalars(fiberData, fidxes, scalarType).self
         /\ ret' = GetScalars(fiberData, fidxes, scalarType).ret
         /\ arg' = [op |-> "getScalars", fidxes |-> fidxes, scalarType |-> scalarType]
    /\ UNCHANGED <<inputVTK, copyTree>>
    /\ UNCHANGED <<legacyData, legacyRet>>

DoAddClusterInfo ==
    /\ Running
    /\ fiberData.no_of_fibers # None
    /\ \E clusterLabels \in ClusterLabelings(fiberData.no_of_fibers) :
         /\ fiberData' = AddClusterInfo(fiberData, clusterLabels).self
         /\ ret' = AddClusterInfo(fiberData, clusterLabels).ret
         /\ arg' = [op |-> "addClusterInfo", clusterLabels |-> clusterLabels]
    /\ UNCHANGED <<inputVTK, copyTree>>
    /\ UNCHANGED <<legacyData, legacyRet>>

(* convertFromTuple(fiberData.getFibers(...)) *)
DoConvertFromTuple ==
    /\ arg.op = "getFibers" /\ ret.status = Ok /\ copyTree = NewFiberTree
    /\ copyTree' = ConvertFromTuple(ret.val).self
    /\ ret' = ConvertFromTuple(ret.val).ret
    /\ arg' = [op |-> "convertFromTuple", fiberTuple |-> ret.val]
    /\ UNCHANGED <<inputVTK, fiberData>>
    /\ UNCHANGED <<legacyData, legacyRet>>

(* copyTree.copyScalar(fiberData, ...) *)
DoCopyScalar ==
    /\ Running
    /\ \E scalarTypeArray \in TypeArrays, fidxes \in IndexLists, rejIdx \in RejLists :
         LET r == CopyScalar(copyTree, fiberData, scalarTypeArray, fidxes, rejIdx)
         IN  /\ copyTree' = r.self
             /\ fiberData' = r.src
             /\ ret' = r.ret
             /\ arg' = [op |-> "copyScalar", scalarTypeArray |-> scalarTypeArray,
                        fidxes |-> fidxes, rejIdx |-> rejIdx]
    /\ UNCHANGED inputVTK
    /\ UNCHANGED <<legacyData, legacyRet>>

DoConvertToVTK ==
    /\ Running
    /\ \E rejIdx \in RejLists :
         /\ fiberData' = ConvertToVTK(fiberData, rejIdx).self
         /\ ret' = ConvertToVTK(fiberData, rejIdx).ret
         /\ arg' = [op |-> "convertToVTK", rejIdx |-> rejIdx]
    /\ UNCHANGED <<inputVTK, copyTree>>
    /\ UNCHANGED <<legacyData, legacyRet>>

DoCalcFiberLength ==
    /\ Running
    /\ \E fidxes \in IndexLists :
         /\ fiberData' = CalcFiberLength(fiberData, fidxes).self
         /\ ret' = CalcFiberLength(fiberData, fidxes).ret
         /\ arg' = [op |-> "calcFiberLength", fidxes |-> fidxes]
    /\ UNCHANGED <<inputVTK, copyTree>>
    /\ UNCHANGED <<legacyData, legacyRet>>

Next ==
    \/ Finish
    \/ DoConvertFromVTK
    \/ DoAddScalar
    \/ DoGetFiber
    \/ DoGetFibers
    \/ DoGetScalar
    \/ DoGetScalars
    \/ DoAddClusterInfo
    \/ DoConvertFromTuple
    \/ DoCopyScalar
    \/ DoConvertToVTK
    \/ DoCalcFiberLength

Spec == Init /\ [][Next]_vars

(* The coordinate side alone: ingestion, extraction of fibers, export *)
NextGeometry ==
    \/ Finish
    \/ DoConvertFromVTK
    \/ DoGetFiber
    \/ DoGetFibers
    \/ DoConvertFromTuple
    \/ DoConvertToVTK
    \/ DoCalcFiberLength

SpecGeometry == Init /\ [][NextGeometry]_vars

(* The scalar side alone: ingestion, attachment and extraction of scalars *)
NextScalar ==
    \/ Finish
    \/ DoConvertFromVTK
    \/ DoAddScalar
    \/ DoGetFiber
    \/ DoGetScalar
    \/ DoGetScalars

SpecScalar == Init /\ [][NextScalar]_vars

----------------------------------------------------------------------------
(* The two variants side by side: the script makes every call on both      *)
(* stores, with the same arguments and with no exclusion.                  *)

BothFinish ==
    /\ ret.status = Ok /\ legacyRet.status = Ok
    /\ arg' = Idle
    /\ ret' = NoCall
    /\ legacyRet' = NoCall
    /\ UNCHANGED <<inputVTK, fiberData, copyTree, legacyData>>

BothIdle == Running /\ legacyRet = NoCall

BothConvertFromVTK ==
    /\ BothIdle
    /\ fiberData.no_of_fibers = None
    /\ \E pts \in 0..MaxPts :
         /\ fiberData' = ConvertFromVTK(fiberData, inputVTK, pts).self
         /\ ret' = ConvertFromVTK(fiberData, inputVTK, pts).ret
         /\ legacyData' = LegacyConvertFromVTK(legacyData, inputVTK, pts).self
         /\ legacyRet' = LegacyConvertFromVTK(legacyData, inputVTK, pts).ret
         /\ arg' = [op |-> "convertFromVTK", pts_per_fiber |-> pts]
    /\ UNCHANGED <<inputVTK, copyTree>>

(* the side-by-side script attaches one scalar type; the reads ask for both *)
BothAddScalar ==
    /\ BothIdle
    /\ \E scalarType \in {"FA"}, pts \in 1..MaxPts :
         LET j == ScalarArrayOf(scalarType)
         IN  /\ ~Attached(fiberData, scalarType)
             /\ fiberData' = AddScalar(fiberData, inputVTK, j, scalarType, pts).self
             /\ ret' = AddScalar(fiberData, inputVTK, j, scalarType, pts).ret
             /\ legacyData' =
                    LegacyAddScalar(legacyData, inputVTK, j, scalarType, pts).self
             /\ legacyRet' =
                    LegacyAddScalar(legacyData, inputVTK, j, scalarType, pts).ret
             /\ arg' = [op |-> "addScalar", scalarData |-> j,
                        scalarType |-> scalarType, pts_per_fiber |-> pts]
    /\ UNCHANGED <<inputVTK, copyTree>>

BothAddClusterInfo ==
    /\ BothIdle
    /\ fiberData.no_of_fibers # None
    /\ fiberData.labels = {}
    /\ \E clusterLabels \in ClusterLabelings(fiberData.no_of_fibers) :
         /\ fiberData' = AddClusterInfo(fiberData, clusterLabels).self
         /\ ret' = AddClusterInfo(fiberData, clusterLabels).ret
         /\ legacyData' = LegacyAddClusterInfo(legacyData, clusterLabels).self
         /\ legacyRet' = LegacyAddClusterInfo(legacyData, clusterLabels).ret
         /\ arg' = [op |-> "addClusterInfo", clusterLabels |-> clusterLabels]
    /\ UNCHANGED <<inputVTK, copyTree>>

BothGetFiber ==
    /\ BothIdle
    /\ \E fiberIdx \in 0..MaxFibers :
         /\ fiberData' = GetFiber(fiberData, fiberIdx).self
         /\ ret' = GetFiber(fiberData, fiberIdx).ret
         /\ legacyData' = LegacyGetFiber(legacyData, fiberIdx).self
         /\ legacyRet' = LegacyGetFiber(legacyData, fiberIdx).ret
         /\ arg' = [op |-> "getFiber", fiberIdx |-> fiberIdx]
    /\ UNCHANGED <<inputVTK, copyTree>>

(* getFibers(fidxes, rejIdx=[]) and getFibers(fidxes) *)
BothGetFibers ==
    /\ BothIdle
    /\ \E fidxes \in IndexLists :
         /\ fiberData' = GetFibers(fiberData, fidxes, {}).self
         /\ ret' = GetFibers(fiberData, fidxes, {}).ret
         /\ legacyData' = LegacyGetFibers(legacyData, fidxes).self
         /\ legacyRet' = LegacyGetFibers(legacyData, fidxes).ret
         /\ arg' = [op |-> "getFibers", fidxes |-> fidxes, rejIdx |-> {}]
    /\ UNCHANGED <<inputVTK, copyTree>>

BothGetScalar ==
    /\ BothIdle
    /\ \E fidx \in 0..MaxFibers, scalarType \in ScalarTypes :
         /\ fiberData' = GetScalar(fiberData, fidx, scalarType).self
         /\ ret' = GetScalar(fiberData, fidx, scalarType).ret
         /\ legacyData' = LegacyGetScalar(legacyData, fidx, scalarType).self
         /\ legacyRet' = LegacyGetScalar(legacyData, fidx, scalarType).ret
         /\ arg' = [op |-> "getScalar", fidx |-> fidx, scalarType |-> scalarType]
    /\ UNCHANGED <<inputVTK, copyTree>>

BothGetScalars ==
    /\ BothIdle
    /\ \E fidxes \in IndexLists, scalarType \in ScalarTypes :
         /\ fiberData' = GetScalars(fiberData, fidxes, scalarType).self
         /\ ret' = GetScalars(fiberData, fidxes, scalarType).ret
         /\ legacyData' = LegacyGetScalars(legacyData, fidxes, scalarType).self
         /\ legacyRet' = LegacyGetScalars(legacyData, fidxes, scalarType).ret
         /\ arg' = [op |-> "getScalars", fidxes |-> fidxes, scalarType |-> scalarType]
    /\ UNCHANGED <<inputVTK, copyTree>>

(* convertToVTK(rejIdx=[]) and convertToVTK() *)
BothConvertToVTK ==
    /\ BothIdle
    /\ fiberData' = ConvertToVTK(fiberData, {}).self
    /\ ret' = ConvertToVTK(fiberData, {}).ret
    /\ legacyData' = LegacyConvertToVTK(legacyData).self
    /\ legacyRet' = LegacyConvertToVTK(legacyData).ret
    /\ arg' = [op |-> "convertToVTK", rejIdx |-> {}]
    /\ UNCHANGED <<inputVTK, copyTree>>

NextVariants ==
    \/ BothFinish
    \/ BothConvertFromVTK
    \/ BothAddScalar
    \/ BothAddClusterInfo
    \/ BothGetFiber
    \/ BothGetFibers
    \/ BothGetScalar
    \/ BothGetScalars
    \/ BothConvertToVTK

SpecVariants == Init /\ [][NextVariants]_vars

----------------------------------------------------------------------------
(* The resampler alone: inputs drawn from bounded sets *)

InitResample ==
    /\ inputVTK = [lines |-> << >>, dtype |-> "float"]
    /\ fiberData = NewFiberTree
    /\ copyTree = NewFiberTree
    /\ arg \in [op : {"_calc_fiber_indices"},
                fiberLength : 0..MaxSrc,
                pts_per_fiber : (-1)..MaxTgt]
    /\ ret = NoCall
    /\ legacyData = NewFiberTree
    /\ legacyRet = NoCall

CallCalcFiberIndices ==
    /\ arg.op = "_calc_fiber_indices"
    /\ ret = NoCall
    /\ ret' = CalcFiberIndices(arg.fiberLength, arg.pts_per_fiber)
    /\ UNCHANGED <<inputVTK, fiberData, copyTree, arg>>
    /\ UNCHANGED <<legacyData, legacyRet>>

NextResample == CallCalcFiberIndices

SpecResample == InitResample /\ [][NextResample]_vars

----------------------------------------------------------------------------
(* Claims about _calc_fiber_indices, checked under SpecResample *)

Returned == arg.op = "_calc_fiber_indices" /\ ret # NoCall

NonDecreasing(l) == \A k \in 1..(Len(l) - 1) : FLeq(l[k], l[k + 1])

C6_Claim ==
    (Returned /\ arg.pts_per_fiber < 2) => ret.status = Error

----------------------------------------------------------------------------
(* Claims about the store *)

Called(op) == arg.op = op /\ ret # NoCall

(* convertFromVTK has run to its end *)
Ingested ==
    /\ fiberData.no_of_fibers # None
    /\ ~(arg.op = "convertFromVTK" /\ ret.status = Error)

Stored(fidx, pidx) ==
    <<fiberData.fiberTree[<<fidx, pidx, "x">>].v,
      fiberData.fiberTree[<<fidx, pidx, "y">>].v,
      fiberData.fiberTree[<<fidx, pidx, "z">>].v>>

(* C2, as stated: getFibers returns exactly one row per entry of the index *)
(* list that is not excluded; row k holds the coordinates of the k-th such *)
(* entry.                                                                  *)
C2_Claim ==
    (Called("getFibers") /\ ret.status = Ok) =>
        LET kept == Kept(arg.fidxes, arg.rejIdx)
            pts  == fiberData.pts_per_fiber
        IN  \A a \in 1..3 :
              /\ Len(ret.val[a]) = Len(kept)
              /\ \A k \in 1..Len(kept) :
                    ret.val[a][k] = [p \in 1..pts |-> Stored(kept[k], p - 1)[a]]

(* C3, as stated: once ingestion has completed, every fiber index in       *)
(* [0, fiberCount) holds exactly pointsPerFiber points, and every stored   *)
(* point has x, y and z set.                                               *)
C3_Claim ==
    Ingested =>
        LET t == fiberData.fiberTree
        IN  /\ \A f \in 0..(fiberData.no_of_fibers - 1) :
                  { k[2] : k \in { q \in DOMAIN t : q[1] = f } }
                      = 0..(fiberData.pts_per_fiber - 1)
            /\ \A k \in DOMAIN t :
                  \A a \in {"x", "y", "z"} : IsNum(t, <<k[1], k[2], a>>)

Extraction ==
    {"getFiber", "getFibers", "getScalar", "getScalars", "calcFiberLength",
     "convertToVTK"}

(* C4, as stated: an extraction call, whatever its arguments, leaves the   *)
(* store (keys, values, fiberCount, pointsPerFiber) as it was.             *)
C4_Claim == [][arg'.op \in Extraction => fiberData' = fiberData]_vars

Uniform(geom, pts) == \A f \in DOMAIN geom.lines : Len(geom.lines[f]) = pts

(* the export has the lines of the geometry, point for point *)
SameLines(out, geom) ==
    /\ Len(out.lines) = Len(geom.lines)
    /\ \A f \in DOMAIN geom.lines :
          [p \in DOMAIN out.lines[f] |-> out.points[out.lines[f][p] + 1]]
              = [p \in DOMAIN geom.lines[f] |-> GetPoint(geom, geom.lines[f][p])]

RoundTrip ==
    /\ Called("convertToVTK") /\ arg.rejIdx = {}
    /\ fiberData.pts_per_fiber >= 2
    /\ Uniform(inputVTK, fiberData.pts_per_fiber)

(* C5, as stated: a geometry whose fibers all have pointsPerFiber points,  *)
(* ingested with that count and exported with no exclusion, comes back     *)
(* with the same lines and the same coordinates.                           *)
C5_Original ==
    RoundTrip => ret.status = Ok /\ SameLines(ret.val, inputVTK)

Float32Exact(geom) ==
    \A f \in DOMAIN geom.lines : \A p \in DOMAIN geom.lines[f] :
        \A a \in 1..3 :
            ToFloat32(GetPoint(geom, geom.lines[f][p])[a])
                = GetPoint(geom, geom.lines[f][p])[a]

(* C5, amended: the same, for a geometry whose coordinates are exactly     *)
(* representable in single precision (the precision the export stores).    *)
C5_Amended ==
    (RoundTrip /\ Float32Exact(inputVTK)) =>
        ret.status = Ok /\ SameLines(ret.val, inputVTK)

C5_Witness ==
    /\ RoundTrip /\ Float32Exact(inputVTK)
    /\ Len(inputVTK.lines) = 2
    /\ fiberData.pts_per_fiber = 3
    /\ ret.status = Ok
    /\ Len(ret.val.points) = 6

(* C7, as stated: ingestion fails when a fiber of the geometry has fewer   *)
(* than 2 points, for any targetPointCount >= 2.                           *)
C7_Original ==
    (/\ Called("convertFromVTK") /\ arg.pts_per_fiber >= 2
     /\ \E f \in DOMAIN inputVTK.lines : Len(inputVTK.lines[f]) < 2)
        => ret.status = Error

(* C7, amended: for targetPointCount >= 2 ingestion does not fail on a     *)
(* fiber of exactly 1 point: it completes, and every sample of that fiber  *)
(* holds the coordinates of its only point.                                *)
C7_Amended ==
    (Called("convertFromVTK") /\ arg.pts_per_fiber >= 2) =>
        /\ ret.status = Ok
        /\ \A f \in DOMAIN inputVTK.lines :
              Len(inputVTK.lines[f]) = 1 =>
                  \A p \in 0..(arg.pts_per_fiber - 1) :
                      Stored(f - 1, p) = GetPoint(inputVTK, inputVTK.lines[f][1])

C7_Witness ==
    /\ Called("convertFromVTK") /\ arg.pts_per_fiber = 3
    /\ Len(inputVTK.lines) = 2
    /\ Len(inputVTK.lines[2]) = 1
    /\ ret.status = Ok
    /\ Stored(1, 2) = GetPoint(inputVTK, inputVTK.lines[2][1])

(* the source index nearest to s * (len - 1) / (pts - 1), a tie going up *)
NearestIdx(len, pts, s) == (2 * s * (len - 1) + (pts - 1)) \div (2 * (pts - 1))

(* scalarType was attached with the sample count of the ingestion *)
AttachedAlike(scalarType) ==
    { k[2] : k \in { q \in DOMAIN fiberData.fiberTree : q[3] = scalarType } }
        = 0..(fiberData.pts_per_fiber - 1)

(* C8: after ingestion and attachScalar with the same target count n,      *)
(* getScalar(f, name)[s] is the scalar value of the original point p       *)
(* nearest to position s of fiber f, the point whose coordinates ingestion *)
(* stored at (f, s); p is a point of fiber f, and no value is interpolated.*)
C8_NearestScalar ==
    (/\ Called("getScalar") /\ ret.status = Ok
     /\ arg.fidx < fiberData.no_of_fibers
     /\ AttachedAlike(arg.scalarType)) =>
        LET line == inputVTK.lines[arg.fidx + 1]
            pts  == fiberData.pts_per_fiber
        IN  \A s \in 0..(pts - 1) :
              LET p == line[NearestIdx(Len(line), pts, s) + 1]
              IN  /\ ret.val[s + 1] = ScalarValue(ScalarArrayOf(arg.scalarType), p)
                  /\ Stored(arg.fidx, s) = GetPoint(inputVTK, p)

(* a fiber of 2 points read at 3 samples: the middle sample is a tie *)
C8_Witness ==
    /\ Called("getScalar") /\ ret.status = Ok
    /\ fiberData.pts_per_fiber = 3
    /\ arg.fidx = 1 /\ fiberData.no_of_fibers = 2
    /\ AttachedAlike(arg.scalarType)
    /\ Len(inputVTK.lines[2]) = 2
    /\ ret.val[2] = ScalarValue(ScalarArrayOf(arg.scalarType), inputVTK.lines[2][2])

(* the fibers of fidxes that rejIdx does not skip; all fibers for no list *)
Copied(fidxes, rejIdx) ==
    Kept(IF fidxes # << >> THEN fidxes ELSE RangeSeq(fiberData.no_of_fibers), rejIdx)

(* C9, as stated: copyScalar writes, for each scalar name, the values of   *)
(* the k-th non-skipped source fiber to destination fiber k, so that the   *)
(* destination fibers written are exactly 0..m-1; the source store is      *)
(* unchanged.                                                              *)
C9_Claim ==
    [][arg'.op = "copyScalar" =>
         /\ fiberData' = fiberData
         /\ ret'.status = Ok =>
              LET kept == Copied(arg'.fidxes, arg'.rejIdx)
                  t    == copyTree'.fiberTree
              IN  \A name \in Range(arg'.scalarTypeArray) :
                    /\ { k[1] : k \in { q \in DOMAIN t : q[3] = name } }
                          = 0..(Len(kept) - 1)
                    /\ \A k \in { q \in DOMAIN t : q[3] = name } :
                          t[k] = fiberData.fiberTree[<<kept[k[1] + 1], k[2], name>>]
    ]_vars

(* C10, as stated: a read of data that was never stored fails: getFiber   *)
(* for an index outside [0, fiberCount) or before ingestion, getScalar and *)
(* getScalars for a name that a requested fiber or point does not hold.    *)
C10_Claim ==
    LET t   == fiberData.fiberTree
        pts == fiberData.pts_per_fiber
    IN  /\ (/\ Called("getFiber")
            /\ \/ fiberData.no_of_fibers = None
               \/ arg.fiberIdx \notin 0..(fiberData.no_of_fibers - 1))
              => ret.status = Error
        /\ (/\ Called("getScalar")
            /\ \/ pts = None
               \/ \E p \in 0..(pts - 1) : ~IsNum(t, <<arg.fidx, p, arg.scalarType>>))
              => ret.status = Error
        /\ (/\ Called("getScalars")
            /\ \/ pts = None
               \/ \E i \in DOMAIN arg.fidxes : \E p \in 0..(pts - 1) :
                     ~IsNum(t, <<arg.fidxes[i], p, arg.scalarType>>))
              => ret.status = Error


(* the fibers exportToGeometry emits: 0..fiberCount-1 without rejIdx, in order *)
Emitted(self, rejIdx) == Kept(RangeSeq(self.no_of_fibers), rejIdx)

(* out has one line for each fiber of kept, in order, each of pts points,  *)
(* and point p of line i is coord(kept[i], p)                              *)
LinesAre(out, kept, pts, coord(_, _)) ==
    /\ Len(out.lines) = Len(kept)
    /\ \A i \in 1..Len(kept) :
          /\ Len(out.lines[i]) = pts
          /\ \A p \in 1..pts :
                out.points[out.lines[i][p] + 1] = coord(kept[i], p - 1)

StoredIn(self, fidx, pidx) ==
    <<self.fiberTree[<<fidx, pidx, "x">>].v,
      self.fiberTree[<<fidx, pidx, "y">>].v,
      self.fiberTree[<<fidx, pidx, "z">>].v>>

(* C11, as stated: after ingestion exportToGeometry(excludeIndices) emits  *)
(* one polyline for each fiber of [0, fiberCount) not excluded, in         *)
(* increasing order, each of pointsPerFiber points whose coordinates are   *)
(* the stored x, y, z in sample order; the store is left as it was.        *)
C11_Original ==
    [][(arg'.op = "convertToVTK" /\ fiberData.no_of_fibers # None) =>
         /\ ret'.status = Ok
         /\ fiberData' = fiberData
         /\ LET exact(f, p) == StoredIn(fiberData, f, p)
            IN  LinesAre(ret'.val, Emitted(fiberData, arg'.rejIdx),
                         fiberData.pts_per_fiber, exact)
    ]_vars

(* C11, amended: the same, the coordinates of the emitted points being the *)
(* stored x, y, z rounded to single precision.                             *)
C11_Amended ==
    [][(arg'.op = "convertToVTK" /\ fiberData.no_of_fibers # None) =>
         /\ ret'.status = Ok
         /\ fiberData' = fiberData
         /\ LET single(f, p) == [a \in 1..3 |-> ToFloat32(StoredIn(fiberData, f, p)[a])]
            IN  LinesAre(ret'.val, Emitted(fiberData, arg'.rejIdx),
                         fiberData.pts_per_fiber, single)
    ]_vars

(* the first of two fibers is excluded, and a coordinate was narrowed *)
C11_Witness ==
    /\ Called("convertToVTK") /\ ret.status = Ok
    /\ arg.rejIdx = {0} /\ fiberData.no_of_fibers = 2
    /\ fiberData.pts_per_fiber = 2
    /\ Len(ret.val.lines) = 1
    /\ ret.val.points[2] # Stored(1, 1)
    /\ ret.val.points[2][2] = Stored(1, 1)[2]


Compared == {"getFiber", "getFibers", "getScalar", "getScalars", "convertToVTK"}

(* C12: with no exclusion, and after the same calls on both variants,      *)
(* getFibers, convertToVTK, getFiber, getScalar and getScalars of          *)
(* src/neurobeer return what those of src/tractography return (or both     *)
(* raise).                                                                 *)
C12_SameResults ==
    (arg.op \in Compared /\ ret # NoCall) => legacyRet = ret

(* both variants return the scalars of two fibers, from stores that hold   *)
(* them differently (float(scalarData[ptidx]) and scalarData[ptidx])       *)
C12_Witness ==
    /\ Called("getScalars") /\ ret.status = Ok
    /\ Len(arg.fidxes) = 2 /\ arg.fidxes[1] # arg.fidxes[2]
    /\ fiberData.pts_per_fiber = 2
    /\ legacyRet = ret
    /\ legacyData.fiberTree # fiberData.fiberTree

=============================================================================
